---- MODULE Spec2Model ----
(***************************************************************************)
(* Verification model of the evidence-gathering extraction pipeline of     *)
(* STEPSCREEN: the three retry loops (NovaSECExtractor.search_and_extract, *)
(* SerperCxOSearcher.search_cxo_from_website,                              *)
(* NovaProPrivateExtractor.extract_private_company_data) and, further      *)
(* down, the thread-pool fan-out batches and the adverse-media / sanctions *)
(* scans (FanSpec), the worker pool alone (PoolSpec) and the functions     *)
(* applied on their own: parsers, fallbacks, completeness scores,          *)
(* deduplication, document priority, the adverse-media pre-filter          *)
(* (CallSpec), and the stores: the put_item writes of the extractors and   *)
(* the merge runs that upload to the bucket (StoreSpec).  Completeness     *)
(* values are kept in hundredths of a percent, so 95.0% is 9500 and        *)
(* round(x, 2) is an integer.                                              *)
(***************************************************************************)
EXTENDS Integers, Sequences, FiniteSets, TLC

(* ------------------------------ bounds --------------------------------- *)
\* largest max_retries argument explored for the two retry loops that take it
MaxRetriesBound == 2
\* largest number of executives one extraction may return
MaxExecutives == 3
\* largest number of extra leaf fields (identifier keys, leadership
\* sub-fields) a private-company record may carry
MaxExtraLeaves == 2
\* number of queries submitted to one fan-out batch
NumQueries == 3
\* largest number of items one extraction may find
MaxItems == 1
\* number of tasks submitted to a pool when only its occupancy is observed
NumTasks == 8
\* longest hit list given to the deduplication and to the document priority
MaxHits == 2
\* number of persisting runs in one behaviour
MaxPuts == 2
\* number of merge runs in one behaviour
MaxMerges == 2

(* ------------------------- program constants --------------------------- *)
\* completeness >= 95.0 ends the run (all three loops)
TargetCompleteness == 9500
\* nova_sec_extractor: 8 main_fields + 4 identifier_fields
SecTotalFields == 12
\* cxo_website_extractor: min_expected_executives
MinExpectedExecutives == 3
\* cxo_website_extractor: 3 required_fields + 4 optional_fields
ProfileFields == 7
\* private_company_extractor: max_attempts
PrivMaxAttempts == 3
\* private_company_extractor: PrivateCompanyInfo fields that always count one
\* unit each in _calculate_completeness (every field but company_identifiers
\* and a dict-valued leadership_team)
PrivScalarFields == 12
\* cxo_website_extractor._parallel_serper_searches: max_workers
CxoMaxWorkers == 6
\* adverse_media_scanner._parallel_search: max_workers
AdvMaxWorkers == 5
\* sanctions_screener._parallel_sanctions_search: max_workers
SancMaxWorkers == 7
\* cxo_website_extractor._combine_search_results: unique_organic[:20]
TopResults == 20
\* sanctions_screener._analyze_sanctions_matches: organic[:5]
SancTopPerSource == 5
\* nova_sec_extractor._prioritize_sec_documents: "if priority_score >= 15"
MinPriorityScore == 15

VARIABLES
    fn,                 \* which retry loop this run executes: "sec", "cxo", "priv"
    arg,                \* argument of the function applied on its own (None: none)
    max_retries,        \* the max_retries argument (priv: max_attempts - 1)
    bedrock_client,     \* priv: FALSE when self.bedrock_client is None
    pc,                 \* "search", "extract", "returned", "raised"
    attempt,            \* the loop counter
    best_result,        \* best_result (sec, cxo)
    best_completeness,  \* best_completeness (sec, cxo)
    completeness,       \* completeness computed by the latest evaluated attempt
    result,             \* record produced by the latest evaluated attempt
    ret,                \* the value handed back to the caller
    ret_completeness,   \* priv: second component of the returned pair
    saved,              \* sec: the put_item calls of the run, in order
    prompt,             \* the prompt built by the latest extraction ("none": none yet)
    searches,           \* number of search executions so far
    extractions,        \* number of extraction calls so far
    nEvaluated,         \* number of attempts whose completeness was computed
    maxEvaluated,       \* highest completeness computed so far (-1: none)
    \* --- one scan: fan-out batch, evidence preparation, analysis ---
    fan,                \* which batch runs: "cxo", "adv", "sanc" ("idle": none)
    future,             \* per query: "queued", "running", "hung", "finished", "collected"
    outcome,            \* per query: what its future holds: "none", "ok", "fail", "raise"
    response,           \* per query: the search service's JSON response
    all_results,        \* all_search_results / all_articles / all_results
    fanPc,              \* "collect", "returned", "prepared", "done"
    evidence,           \* what the extractor is given
    analysis,           \* how the extraction call went: "none", "ok", "call_fails", "unparsable"
    scan_result,        \* the result handed to the caller of the scan
    \* --- the stores: DynamoDB tables and the S3 bucket ---
    clock,              \* the wall clock, in ticks
    table,              \* the items of the tables, by primary key
    puts,               \* every put_item call so far, in order
    bucket,             \* the objects of the bucket, by key
    merge,              \* per merge run: its position and the data it holds
    last_written        \* per company: content of the latest timestamped upload

retryVars == <<fn, arg, max_retries, bedrock_client, pc, attempt, best_result,
               best_completeness, completeness, result, ret, ret_completeness,
               saved, prompt, searches, extractions, nEvaluated, maxEvaluated>>

fanVars == <<fan, future, outcome, response, all_results, fanPc, evidence,
             analysis, scan_result>>

storeVars == <<clock, table, puts, bucket, merge, last_written>>

vars == <<retryVars, fanVars, storeVars>>

(* ------------------------------ values --------------------------------- *)
Min(a, b) == IF a < b THEN a ELSE b
Max(a, b) == IF a > b THEN a ELSE b

\* round(num / den, 0) for non-negative integers, den > 0
RoundDiv(num, den) == (2 * num + den) \div (2 * den)

None == [kind |-> "None"]

\* a record produced by attempt att: filled of total leaf fields hold a value;
\* count is the number of executives (cxo only)
Record(att, filled, total, count) ==
    [kind |-> "record", att |-> att, filled |-> filled, total |-> total, count |-> count]

\* _create_empty_result: a dict with an 'error' key
EmptyResult(msg) == [kind |-> "error", error |-> msg]

\* _fallback_extraction: the name only, every other field the sentinel
FallbackRecord == [kind |-> "fallback"]

\* NovaSECExtractor._calculate_completeness
\*   round(filled_fields / total_fields * 100, 2)
SecCalculateCompleteness(r) ==
    IF r.total = 0 THEN 0 ELSE RoundDiv(r.filled * 10000, r.total)

\* SerperCxOSearcher._calculate_completeness
\*   0.0 for no executives, else
\*   round(min(n / 3, 1.0) * 40 + (sum(profile_score / 7 * 100) / n) * 0.6, 2)
CxoCalculateCompleteness(r) ==
    IF r.count = 0 THEN 0
    ELSE RoundDiv(
           4000 * Min(r.count, MinExpectedExecutives) * ProfileFields * r.count
             + 6000 * r.filled * MinExpectedExecutives,
           MinExpectedExecutives * ProfileFields * r.count)

\* NovaProPrivateExtractor._calculate_completeness
\*   (filled_fields / total_fields * 100) if total_fields > 0 else 0
PrivCalculateCompleteness(r) ==
    IF r.total = 0 THEN 0 ELSE (r.filled * 10000) \div r.total

\* the records one extraction of each loop can produce in attempt att
SecRecords(att) ==
    { Record(att, f, SecTotalFields, 0) : f \in 0..SecTotalFields }

CxoRecords(att) ==
    UNION { { Record(att, f, ProfileFields * n, n) : f \in 0..(ProfileFields * n) }
            : n \in 0..MaxExecutives }

PrivRecords(att) ==
    UNION { { Record(att, f, t, 0) : f \in 0..t }
            : t \in PrivScalarFields..(PrivScalarFields + MaxExtraLeaves) }

(* --------------------------- loop decisions ---------------------------- *)
\* the threshold test as a bug would have it: only a full record stops the run
MeetsThresholdOnlyFull(c) == c >= 10000

\* "if completeness >= 95.0" / "if completeness >= target_completeness"
MeetsThreshold(c) == c >= TargetCompleteness

\* the retry test off by one: one attempt more than the budget
MayRetryOffByOne(a, m) == a <= m

\* "if attempt < max_retries" (sec, cxo)
MayRetry(a, m) == a < m

\* "while attempt <= max_retries" (sec, cxo)
LoopContinues(a, m) == a <= m

\* best tracking that overwrites the best with every attempt
ReplacesBestAlways(c, best) == c >= 0

\* "if completeness > best_completeness" (sec, cxo)
ReplacesBest(c, best) == c > best

\* "Track best result": the pair <<best_completeness, best_result>> afterwards
TrackBest(c, r, bc, br) ==
    IF ReplacesBest(c, bc) THEN <<c, r>> ELSE <<bc, br>>

\* nothing has been persisted or merged
StoreIdle ==
    /\ clock = 0
    /\ table = <<>>
    /\ puts = <<>>
    /\ bucket = <<>>
    /\ merge = <<>>
    /\ last_written = <<>>

\* no scan is running
FanIdle ==
    /\ fan = "idle"
    /\ future = <<>>
    /\ outcome = <<>>
    /\ response = <<>>
    /\ all_results = <<>>
    /\ fanPc = "done"
    /\ evidence = <<>>
    /\ analysis = "none"
    /\ scan_result = None

Init ==
    /\ FanIdle
    /\ fn \in {"sec", "cxo", "priv"}
    /\ arg = None
    /\ max_retries \in IF fn = "priv" THEN {PrivMaxAttempts - 1} ELSE 0..MaxRetriesBound
    /\ bedrock_client \in IF fn = "priv" THEN BOOLEAN ELSE {TRUE}
    /\ pc = "search"
    /\ attempt = IF fn = "priv" THEN 1 ELSE 0
    /\ best_result = None
    /\ best_completeness = 0
    /\ completeness = 0
    /\ result = None
    /\ ret = None
    /\ ret_completeness = 0
    /\ saved = <<>>
    /\ prompt = "none"
    /\ StoreIdle
    /\ searches = 0
    /\ extractions = 0
    /\ nEvaluated = 0
    /\ maxEvaluated = -1

\* ghost bookkeeping of one evaluated attempt
Evaluated(c) ==
    /\ nEvaluated' = nEvaluated + 1
    /\ maxEvaluated' = Max(maxEvaluated, c)

NotEvaluated == UNCHANGED <<nEvaluated, maxEvaluated, completeness, result>>

Return(v, score) ==
    /\ pc' = "returned"
    /\ ret' = v
    /\ ret_completeness' = score

(* ---------------- NovaSECExtractor.search_and_extract ------------------ *)
\* the "except Exception" branch of the loop body, reached with the given
\* best_result (which the body may already have replaced)
SecExceptionHandler(br) ==
    IF MayRetry(attempt, max_retries)
    THEN /\ attempt' = attempt + 1
         /\ pc' = "search"
         /\ UNCHANGED <<ret, ret_completeness>>
    ELSE /\ UNCHANGED attempt
         /\ IF br # None
            THEN Return(br, 0)
            ELSE Return(EmptyResult("Extraction error"), 0)

\* _save_to_dynamodb: one table.put_item call for the record; written is
\* FALSE when the call raised (the "except Exception" logs and goes on)
SaveToDynamodb(r, written) == [record |-> r, written |-> written]

\* the prompt the extraction of attempt a of loop f is sent:
\*   sec   _build_extraction_prompt(company_name, document_urls,
\*         search_snippets, location), the attempt is not among the arguments
\*   cxo   _build_executive_extraction_prompt(search_context, company_name,
\*         website_url), the same
\*   priv  "if attempt == 1: _build_private_company_prompt, else:
\*         _build_enhanced_retry_prompt"
BuildPrompt(f, a) == IF f = "priv" /\ a # 1 THEN "enhanced" ELSE "base"

\* steps 1-2 of one loop iteration: _search_sec_documents and
\* _prioritize_sec_documents
SecSearch ==
    /\ fn = "sec"
    /\ pc = "search"
    /\ IF LoopContinues(attempt, max_retries)
       THEN /\ searches' = searches + 1
            /\ \E step \in {"ok", "no_results", "no_documents", "raise"} :
                 CASE step = "ok" ->
                        /\ pc' = "extract"
                        /\ UNCHANGED <<attempt, ret, ret_completeness>>
                   [] step = "no_results" ->
                        /\ Return(EmptyResult("No search results found"), 0)
                        /\ UNCHANGED attempt
                   [] step = "no_documents" ->
                        /\ Return(EmptyResult("No relevant SEC documents found"), 0)
                        /\ UNCHANGED attempt
                   [] step = "raise" ->
                        SecExceptionHandler(best_result)
            /\ UNCHANGED saved
       ELSE \* "Fallback return (should never reach here)"
            /\ UNCHANGED <<searches, attempt>>
            /\ IF best_result # None
               THEN /\ \E written \in BOOLEAN :
                         saved' = Append(saved, SaveToDynamodb(best_result, written))
                    /\ Return(best_result, 0)
               ELSE /\ UNCHANGED saved
                    /\ Return(EmptyResult("Unknown error occurred"), 0)
    /\ NotEvaluated
    /\ UNCHANGED <<fn, arg, max_retries, bedrock_client, best_result,
                   best_completeness, extractions, prompt>>
    /\ UNCHANGED <<fanVars, storeVars>>

\* _save_results(result): raises on None (result.get), otherwise the write
\* either reaches the table or fails inside _save_to_dynamodb, which logs and
\* swallows the error
SecSaveRaises(r) == r = None

\* steps 3-7 of one loop iteration: extract, compile, evaluate, decide
SecExtract ==
    /\ fn = "sec"
    /\ pc = "extract"
    /\ extractions' = extractions + 1
    /\ prompt' = BuildPrompt(fn, attempt)
    /\ \/ \* asdict / _calculate_completeness raises before the evaluation ends
          /\ SecExceptionHandler(best_result)
          /\ NotEvaluated
          /\ UNCHANGED <<best_result, best_completeness, saved>>
       \/ \E r \in SecRecords(attempt), written \in BOOLEAN :
            LET c    == SecCalculateCompleteness(r)
                best == TrackBest(c, r, best_completeness, best_result)
            IN  /\ result' = r
                /\ completeness' = c
                /\ Evaluated(c)
                /\ best_completeness' = best[1]
                /\ best_result' = best[2]
                /\ IF MeetsThreshold(c)
                   THEN /\ saved' = Append(saved, SaveToDynamodb(r, written))
                        /\ Return(r, 0)
                        /\ UNCHANGED attempt
                   ELSE IF MayRetry(attempt, max_retries)
                   THEN /\ attempt' = attempt + 1
                        /\ pc' = "search"
                        /\ UNCHANGED <<saved, ret, ret_completeness>>
                   ELSE IF SecSaveRaises(best[2])
                   THEN /\ SecExceptionHandler(best[2])
                        /\ UNCHANGED saved
                   ELSE /\ saved' = Append(saved, SaveToDynamodb(best[2], written))
                        /\ Return(best[2], 0)
                        /\ UNCHANGED attempt
    /\ UNCHANGED <<fn, arg, max_retries, bedrock_client, searches>>
    /\ UNCHANGED <<fanVars, storeVars>>

(* --------------- SerperCxOSearcher.search_cxo_from_website ------------- *)
\* query generation and _parallel_serper_searches (which never raises)
CxoSearch ==
    /\ fn = "cxo"
    /\ pc = "search"
    /\ IF LoopContinues(attempt, max_retries)
       THEN /\ searches' = searches + 1
            /\ pc' = "extract"
            /\ UNCHANGED <<ret, ret_completeness>>
       ELSE \* "Fallback return (should never reach here)":
            \* return best_result if best_result else result
            /\ UNCHANGED searches
            /\ Return(IF best_result # None THEN best_result ELSE result, 0)
    /\ NotEvaluated
    /\ UNCHANGED <<fn, arg, max_retries, bedrock_client, attempt, best_result,
                   best_completeness, saved, extractions, prompt>>
    /\ UNCHANGED <<fanVars, storeVars>>

\* the rest of one loop iteration: extraction (Nova Pro or regex), result
\* construction, completeness, best tracking and the decision.  The loop body
\* has no exception handler: an exception leaves the function.
CxoExtract ==
    /\ fn = "cxo"
    /\ pc = "extract"
    /\ extractions' = extractions + 1
    /\ prompt' = BuildPrompt(fn, attempt)
    /\ \/ /\ pc' = "raised"
          /\ NotEvaluated
          /\ UNCHANGED <<attempt, best_result, best_completeness, ret, ret_completeness>>
       \/ \E r \in CxoRecords(attempt) :
            LET c    == CxoCalculateCompleteness(r)
                best == TrackBest(c, r, best_completeness, best_result)
            IN  /\ result' = r
                /\ completeness' = c
                /\ Evaluated(c)
                /\ best_completeness' = best[1]
                /\ best_result' = best[2]
                /\ IF MeetsThreshold(c)
                   THEN /\ Return(r, 0)
                        /\ UNCHANGED attempt
                   ELSE IF MayRetry(attempt, max_retries)
                   THEN /\ attempt' = attempt + 1
                        /\ pc' = "search"
                        /\ UNCHANGED <<ret, ret_completeness>>
                   ELSE /\ Return(best[2], 0)
                        /\ UNCHANGED attempt
    /\ UNCHANGED <<fn, arg, max_retries, bedrock_client, saved, searches>>
    /\ UNCHANGED <<fanVars, storeVars>>

(* -------- NovaProPrivateExtractor.extract_private_company_data --------- *)
\* PrivateCompanyExtractor.extract_company_data, step 1: the one search that
\* precedes the call of extract_private_company_data; without a Bedrock
\* client the call returns the fallback record at once
PrivSearch ==
    /\ fn = "priv"
    /\ pc = "search"
    /\ searches' = searches + 1
    /\ IF bedrock_client
       THEN /\ pc' = "extract"
            /\ UNCHANGED <<ret, ret_completeness>>
       ELSE Return(FallbackRecord, 0)
    /\ NotEvaluated
    /\ UNCHANGED <<fn, arg, max_retries, bedrock_client, attempt, best_result,
                   best_completeness, saved, extractions, prompt>>
    /\ UNCHANGED <<fanVars, storeVars>>

\* "elif attempt < max_attempts" / "if attempt == max_attempts"
PrivLastAttempt(a) == a = PrivMaxAttempts

\* "for attempt in range(1, max_attempts + 1)"
PrivLoopContinues(a) == a <= PrivMaxAttempts

\* one iteration of "for attempt in range(1, max_attempts + 1)"; when the
\* range is used up, the statement after the loop returns the fallback
\* (every path of the last iteration returns, so that never happens)
PrivExtract ==
    /\ fn = "priv"
    /\ pc = "extract"
    /\ IF PrivLoopContinues(attempt)
       THEN /\ extractions' = extractions + 1
            /\ prompt' = BuildPrompt(fn, attempt)
            /\ \/ \* invoke_model or the response handling raises
                  /\ IF PrivLastAttempt(attempt)
                     THEN /\ Return(FallbackRecord, 0)
                          /\ UNCHANGED attempt
                     ELSE /\ attempt' = attempt + 1
                          /\ UNCHANGED <<pc, ret, ret_completeness>>
                  /\ NotEvaluated
               \/ \E r \in PrivRecords(attempt) :
                    LET c == PrivCalculateCompleteness(r)
                    IN  /\ result' = r
                        /\ completeness' = c
                        /\ Evaluated(c)
                        /\ IF MeetsThreshold(c)
                           THEN /\ Return(r, c)
                                /\ UNCHANGED attempt
                           ELSE IF ~PrivLastAttempt(attempt)
                           THEN /\ attempt' = attempt + 1
                                /\ UNCHANGED <<pc, ret, ret_completeness>>
                           ELSE /\ Return(r, c)
                                /\ UNCHANGED attempt
       ELSE /\ Return(FallbackRecord, 0)
            /\ NotEvaluated
            /\ UNCHANGED <<attempt, extractions, prompt>>
    /\ UNCHANGED <<fn, arg, max_retries, bedrock_client, best_result,
                   best_completeness, saved, searches>>
    /\ UNCHANGED <<fanVars, storeVars>>

Next ==
    \/ SecSearch
    \/ SecExtract
    \/ CxoSearch
    \/ CxoExtract
    \/ PrivSearch
    \/ PrivExtract

Spec == Init /\ [][Next]_vars

(* ======================================================================= *)
(* One scan: the thread-pool fan-out batch (_parallel_serper_searches,     *)
(* _parallel_search, _parallel_sanctions_search), the preparation of the   *)
(* evidence and the extraction call on it.                                 *)
(* ======================================================================= *)
Queries == 1..NumQueries

\* a pool that gives every submitted task a thread of its own
MaxWorkersPerTask(f) == NumTasks

\* max_workers of the three ThreadPoolExecutors
MaxWorkers(f) ==
    CASE f = "cxo"  -> CxoMaxWorkers
      [] f = "adv"  -> AdvMaxWorkers
      [] f = "sanc" -> SancMaxWorkers

\* requests.post(..., timeout=10) only in the sanctions screener; the CxO
\* and adverse-media searches call requests.post without a timeout
HasTimeout(f) == f = "sanc"

\* cxo: _perform_serper_search catches requests.exceptions.RequestException
\* only, so another exception reaches future.result(); adv and sanc catch
\* Exception inside the worker
WorkerOutcomes(f) == IF f = "cxo" THEN {"ok", "fail", "raise"} ELSE {"ok", "fail"}

\* one organic result; src tells apart the title/snippet of two results that
\* share a link
Hit(u, q) == [link |-> u, src |-> q]

\* a JSON response as a dict: the keys it has and their values
EmptyDict == [keys |-> {}, organic |-> <<>>, knowledgeGraph |-> 0]

SearchData(org, kg) ==
    [keys |-> IF kg = 0 THEN {"organic"} ELSE {"organic", "knowledgeGraph"},
     organic |-> org, knowledgeGraph |-> kg]

\* the link every query may return as well (0), next to a link of its own (q)
SharedLink == 0

\* the responses the search service may give to query q
Responses(q) ==
    { EmptyDict,
      SearchData(<<>>, 0),
      SearchData(<<Hit(q, q)>>, 0),
      SearchData(<<Hit(SharedLink, q)>>, 0),
      SearchData(<<Hit(SharedLink, q), Hit(q, q)>>, q) }

\* dict.get('organic', [])
Organic(d) == IF "organic" \in d.keys THEN d.organic ELSE <<>>

\* dict.get('knowledgeGraph'), 0 standing for a missing or empty block
KnowledgeGraph(d) == IF "knowledgeGraph" \in d.keys THEN d.knowledgeGraph ELSE 0

\* truth value of a dict: it has a key
Truthy(d) == d.keys # {}

\* organic[:n]
Take(seq, n) == SubSeq(seq, 1, Min(n, Len(seq)))

FanInit ==
    /\ fan \in {"cxo", "adv", "sanc"}
    /\ future = [q \in Queries |-> "queued"]
    /\ outcome = [q \in Queries |-> "none"]
    /\ response = [q \in Queries |-> EmptyDict]
    /\ all_results = <<>>
    /\ fanPc = "collect"
    /\ evidence = <<>>
    /\ analysis = "none"
    /\ scan_result = None
    \* no retry loop is running
    /\ fn = "none"
    /\ arg = None
    /\ max_retries = 0
    /\ bedrock_client = TRUE
    /\ pc = "returned"
    /\ attempt = 0
    /\ best_result = None
    /\ best_completeness = 0
    /\ completeness = 0
    /\ result = None
    /\ ret = None
    /\ ret_completeness = 0
    /\ saved = <<>>
    /\ prompt = "none"
    /\ StoreIdle
    /\ searches = 0
    /\ extractions = 0
    /\ nEvaluated = 0
    /\ maxEvaluated = -1

\* the tasks a pool thread is executing: their search call is in flight
Running == { q \in DOMAIN future : future[q] \in {"running", "hung"} }

\* a pool thread takes the oldest queued task; at most max_workers threads
WorkerStart(q) ==
    /\ fanPc = "collect"
    /\ future[q] = "queued"
    /\ \A p \in DOMAIN future : p < q => future[p] # "queued"
    /\ Cardinality(Running) < MaxWorkers(fan)
    /\ future' = [future EXCEPT ![q] = "running"]
    /\ UNCHANGED <<fan, outcome, response, all_results, fanPc, evidence,
                   analysis, scan_result>>
    /\ UNCHANGED <<retryVars, storeVars>>

\* a worker that stores its own response in the shared accumulator
WorkerWritesShared(f, acc, q, o, d) ==
    CASE f = "cxo"  -> IF o = "ok" /\ Truthy(d) THEN Append(acc, d) ELSE acc
      [] f = "adv"  -> IF o = "ok" THEN acc \o Organic(d) ELSE acc
      [] f = "sanc" -> Append(acc, [source_key |-> q, results |-> d])

\* what the worker task (_perform_serper_search, _perform_search) leaves in
\* the accumulator of the batch: the task gets the query only and returns
\* its response, the accumulator is a local of the submitting function
WorkerWrites(f, acc, q, o, d) == acc

\* the search service answers (or the request fails) and the worker returns
WorkerFinish(q) ==
    /\ fanPc = "collect"
    /\ future[q] = "running"
    /\ \E o \in WorkerOutcomes(fan) :
         \E d \in IF o = "ok" THEN Responses(q) ELSE {EmptyDict} :
            /\ outcome' = [outcome EXCEPT ![q] = o]
            /\ response' = [response EXCEPT ![q] = d]
            /\ all_results' = WorkerWrites(fan, all_results, q, o, d)
    /\ future' = [future EXCEPT ![q] = "finished"]
    /\ UNCHANGED <<fan, fanPc, evidence, analysis, scan_result>>
    /\ UNCHANGED <<retryVars, storeVars>>

\* the search service never answers the request of query q
WorkerHang(q) ==
    /\ fanPc = "collect"
    /\ future[q] = "running"
    /\ future' = [future EXCEPT ![q] = "hung"]
    /\ UNCHANGED <<fan, outcome, response, all_results, fanPc, evidence,
                   analysis, scan_result>>
    /\ UNCHANGED <<retryVars, storeVars>>

\* timeout=10 expires: requests raises Timeout, the worker's except clause
\* returns {} like for any failed search
WorkerTimeout(q) ==
    /\ fanPc = "collect"
    /\ future[q] = "hung"
    /\ HasTimeout(fan)
    /\ outcome' = [outcome EXCEPT ![q] = "fail"]
    /\ future' = [future EXCEPT ![q] = "finished"]
    /\ UNCHANGED <<fan, response, all_results, fanPc, evidence, analysis,
                   scan_result>>
    /\ UNCHANGED <<retryVars, storeVars>>

\* a collector that throws away what it has when a query failed
CollectedAbortOnFailure(f, acc, q, o, d) ==
    IF o # "ok" THEN <<>>
    ELSE CASE f = "cxo"  -> IF Truthy(d) THEN Append(acc, d) ELSE acc
           [] f = "adv"  -> acc \o Organic(d)
           [] f = "sanc" -> Append(acc, [source_key |-> q, results |-> d])

\* body of "for future in as_completed(...)": what the accumulator holds
\* after the future of query q, with outcome o and response d, was consumed
Collected(f, acc, q, o, d) ==
    CASE f = "cxo" ->
           \* search_data = future.result(); if search_data: append
           IF o = "ok" /\ Truthy(d) THEN Append(acc, d) ELSE acc
      [] f = "adv" ->
           \* all_articles.extend(articles); a failed search returned []
           IF o = "ok" THEN acc \o Organic(d) ELSE acc
      [] f = "sanc" ->
           \* all_results[source_key] = {..., 'results': search_data or {}}
           Append(acc, [source_key |-> q,
                        results |-> IF o = "ok" THEN d ELSE EmptyDict])

\* the collecting thread consumes one completed future
Collect(q) ==
    /\ fanPc = "collect"
    /\ future[q] = "finished"
    /\ all_results' = Collected(fan, all_results, q, outcome[q], response[q])
    /\ future' = [future EXCEPT ![q] = "collected"]
    /\ UNCHANGED <<fan, outcome, response, fanPc, evidence, analysis, scan_result>>
    /\ UNCHANGED <<retryVars, storeVars>>

\* as_completed is exhausted, the executor shuts down, the batch returns
BatchReturn ==
    /\ fanPc = "collect"
    /\ \A q \in Queries : future[q] = "collected"
    /\ fanPc' = "returned"
    /\ UNCHANGED <<fan, future, outcome, response, all_results, evidence,
                   analysis, scan_result>>
    /\ UNCHANGED <<retryVars, storeVars>>

RECURSIVE ConcatOrganic(_)
\* combined['organic'] after "for search_data in all_search_results: extend"
ConcatOrganic(results) ==
    IF results = <<>> THEN <<>>
    ELSE Organic(Head(results)) \o ConcatOrganic(Tail(results))

RECURSIVE FirstKnowledgeGraph(_)
\* "Use knowledge graph from first result that has one"
FirstKnowledgeGraph(results) ==
    IF results = <<>> THEN 0
    ELSE IF KnowledgeGraph(Head(results)) # 0 THEN KnowledgeGraph(Head(results))
    ELSE FirstKnowledgeGraph(Tail(results))

RECURSIVE UniqueByLink(_, _)
\* keep the first hit of every link: "if url not in seen_urls"
UniqueByLink(hits, seen) ==
    IF hits = <<>> THEN <<>>
    ELSE IF Head(hits).link \in seen THEN UniqueByLink(Tail(hits), seen)
    ELSE <<Head(hits)>> \o UniqueByLink(Tail(hits), seen \cup {Head(hits).link})

\* SerperCxOSearcher._combine_search_results
CombineSearchResults(results) ==
    [organic |-> Take(UniqueByLink(ConcatOrganic(results), {}), TopResults),
     knowledgeGraph |-> FirstKnowledgeGraph(results)]

\* SerperAdverseMediaSearcher._deduplicate_articles (every modelled link is
\* a non-empty string)
DeduplicateArticles(articles) == UniqueByLink(articles, {})

RECURSIVE AnalysisData(_)
\* _analyze_sanctions_matches: sources with organic results, top 5 each
AnalysisData(results) ==
    IF results = <<>> THEN <<>>
    ELSE IF Organic(Head(results).results) # <<>>
    THEN <<[source_key |-> Head(results).source_key,
            articles |-> Take(Organic(Head(results).results), SancTopPerSource)]>>
         \o AnalysisData(Tail(results))
    ELSE AnalysisData(Tail(results))

\* what the extractor is given for the results of a batch
EvidenceFor(f, results) ==
    CASE f = "cxo"  -> CombineSearchResults(results)
      [] f = "adv"  -> DeduplicateArticles(results)
      [] f = "sanc" -> AnalysisData(results)

\* the caller's step after the batch: _combine_search_results,
\* _deduplicate_articles, or the analysis_data of _analyze_sanctions_matches
PrepareEvidence ==
    /\ fanPc = "returned"
    /\ evidence' = EvidenceFor(fan, all_results)
    /\ fanPc' = "prepared"
    /\ UNCHANGED <<fan, future, outcome, response, all_results, analysis,
                   scan_result>>
    /\ UNCHANGED <<retryVars, storeVars>>

\* what the scan hands to its caller when the extraction found n items:
\* AdverseMediaSearchResults, the matches list of screen_entity, or the
\* executives of one CxO attempt
ScanResult(f, ev, n) ==
    CASE f = "adv"  -> [kind |-> "AdverseMediaSearchResults",
                        total_articles_scanned |-> Len(ev),
                        adverse_items_found |-> n]
      [] f = "sanc" -> [kind |-> "matches", found |-> n]
      [] f = "cxo"  -> [kind |-> "executives", found |-> n]

\* the extraction call on the evidence and the result handed to the caller:
\* analyze_articles returns [] and _call_nova_pro returns '{"matches": []}'
\* when the call fails; the parsers return [] for unparsable text; the CxO
\* attempt skips the call without search results and falls back to the regex
\* extraction when Nova Pro yields nothing
Analyze ==
    /\ fanPc = "prepared"
    /\ \E a \in {"ok", "call_fails", "unparsable"}, n \in 0..MaxItems :
         /\ analysis' = IF fan = "cxo" /\ all_results = <<>> THEN "none" ELSE a
         /\ scan_result' =
              ScanResult(fan, evidence,
                         IF a = "ok" \/ fan = "cxo" THEN n ELSE 0)
    /\ fanPc' = "done"
    /\ UNCHANGED <<fan, future, outcome, response, all_results, evidence>>
    /\ UNCHANGED <<retryVars, storeVars>>

FanNext ==
    \/ \E q \in Queries : WorkerStart(q)
    \/ \E q \in Queries : WorkerFinish(q)
    \/ \E q \in Queries : WorkerHang(q)
    \/ \E q \in Queries : WorkerTimeout(q)
    \/ \E q \in Queries : Collect(q)
    \/ BatchReturn
    \/ PrepareEvidence
    \/ Analyze

FanSpec == FanInit /\ [][FanNext]_vars

\* the pool threads, the collecting thread and the caller keep running
FanLiveSpec == FanInit /\ [][FanNext]_vars /\ WF_vars(FanNext)

(* ======================================================================= *)
(* The worker pool alone: NumTasks search tasks submitted to one           *)
(* ThreadPoolExecutor(max_workers=...), more than any of the pools has     *)
(* threads.  Only the occupancy of the pool is observed, so every search   *)
(* fails (or hangs) and nothing is collected.                              *)
(* ======================================================================= *)
Tasks == 1..NumTasks

PoolInit ==
    /\ fan \in {"cxo", "adv", "sanc"}
    /\ future = [t \in Tasks |-> "queued"]
    /\ outcome = [t \in Tasks |-> "none"]
    /\ response = [t \in Tasks |-> EmptyDict]
    /\ all_results = <<>>
    /\ fanPc = "collect"
    /\ evidence = <<>>
    /\ analysis = "none"
    /\ scan_result = None
    \* no retry loop is running
    /\ fn = "none"
    /\ arg = None
    /\ max_retries = 0
    /\ bedrock_client = TRUE
    /\ pc = "returned"
    /\ attempt = 0
    /\ best_result = None
    /\ best_completeness = 0
    /\ completeness = 0
    /\ result = None
    /\ ret = None
    /\ ret_completeness = 0
    /\ saved = <<>>
    /\ prompt = "none"
    /\ StoreIdle
    /\ searches = 0
    /\ extractions = 0
    /\ nEvaluated = 0
    /\ maxEvaluated = -1

PoolNext ==
    \/ \E t \in Tasks : WorkerStart(t)
    \/ \E t \in Tasks : WorkerFinish(t) /\ outcome'[t] = "fail"
    \/ \E t \in Tasks : WorkerHang(t)
    \/ \E t \in Tasks : WorkerTimeout(t)

PoolSpec == PoolInit /\ [][PoolNext]_vars

(* ======================================================================= *)
(* Functions applied on their own: the response parsers, the fallbacks,    *)
(* the completeness scores, the deduplication and the document priority.   *)
(* An exception is a value: a computation either returned or raised.       *)
(* ======================================================================= *)
Raised(e) == [exc |-> e, val |-> None]

Returned(v) == [exc |-> "none", val |-> v]

\* the keys of company_identifiers the prompts ask for
IdKeys == {"CIK", "DUNS", "LEI", "CUSIP"}

\* a JSON object as the model may answer it.  scalars: what every scalar
\* key holds ("omitted": the keys are missing, "null", "sentinel",
\* "value"); ids: the company_identifiers object (present: FALSE when the
\* key is missing), the keys it has and whether they hold values or the
\* sentinel
JsonObject(sc, ids) == [scalars |-> sc, ids |-> ids]

Identifiers(keys, filled) == [present |-> TRUE, keys |-> keys, filled |-> filled]

NoIdentifiers == [present |-> FALSE, keys |-> {}, filled |-> FALSE]

JsonObjects ==
    { JsonObject(sc, ids) :
        sc \in {"omitted", "null", "sentinel", "value"},
        ids \in {NoIdentifiers}
                \cup { Identifiers(k, f) : k \in SUBSET IdKeys, f \in BOOLEAN } }

EmptyObject == JsonObject("omitted", NoIdentifiers)

\* len(data) of a parsed JSON object
NumKeys(o) ==
    (IF o.scalars = "omitted" THEN 0 ELSE 1) + (IF o.ids = NoIdentifiers THEN 0 ELSE 1)

\* the text of a model answer: a markdown fence around it ("json": ```json,
\* "bare": ```), and its body:
\*   "array"            a JSON array of n objects
\*   "array_truncated"  the same cut inside object n + 1
\*   "array_truncated_brace"  the same, the cut coming after a "}" that the
\*                      unfinished object n + 1 holds inside a string value
\*   "bad_number"       an array of n objects whose scores are not numbers
\*   "scalars"          a JSON array of n numbers
\*   "object"           the JSON object obj
\*   "matches"          {"matches": [n objects]}
\*   "prose"            text without JSON,  "empty": the empty string
Fences == {"none", "json", "bare"}

Bodies == {"array", "array_truncated", "array_truncated_brace", "bad_number",
           "scalars", "matches", "prose", "empty"}

Text(f, b, n, o) == [kind |-> "str", fence |-> f, body |-> b, n |-> n, obj |-> o]

Texts ==
    { Text(f, b, n, EmptyObject) : f \in Fences, b \in Bodies, n \in 0..MaxItems }
    \cup { Text(f, "object", 0, o) : f \in Fences, o \in JsonObjects }

\* the response dict of invoke_model as the list parsers get it:
\*   "output_message"     {'output': {'message': {'content': [{'text': t}]}}}
\*   "output_no_content"  the same with 'content': []
\*   "output_no_message"  {'output': {}}
\*   "content_text"       {'content': t}
\*   "content_blocks"     {'content': [{'text': t}]}
\*   "neither"            a dict without 'output' and 'content'
\*   "not_a_dict"         None
Envelopes == {"output_message", "output_no_content", "output_no_message",
              "content_text", "content_blocks", "neither", "not_a_dict"}

ListResponses == { [env |-> e, text |-> t] : e \in Envelopes, t \in Texts }

\* an "except" clause that catches json.JSONDecodeError only
ParserCatchesJsonOnly(e) == e = "JSONDecodeError"

\* "except json.JSONDecodeError" followed by "except Exception"
ParserCatches(e) == e \in {"JSONDecodeError", "TypeError", "IndexError", "KeyError",
                           "AttributeError", "ValueError"}

\* a list of n items and the path that produced it
ItemList(n, via) == Returned([kind |-> "list", items |-> n, via |-> via])

\* lines 231-237 / 294-300: the text of the response, "unexpected" for the
\* else branch
ExtractContent(r) ==
    CASE r.env = "not_a_dict"        -> Raised("TypeError")
      [] r.env = "output_message"    -> Returned(r.text)
      [] r.env = "output_no_content" -> Raised("IndexError")
      [] r.env = "content_text"      -> Returned(r.text)
      [] r.env = "content_blocks"    -> Returned([kind |-> "list"])
      [] OTHER                       -> Returned([kind |-> "unexpected"])

\* the fence handling leaves the JSON body alone: the adverse-media parser
\* removes ```json, ``` and a closing ```, the CxO parser only ```json and
\* a closing ```
FenceRemoved(parser, fence) == parser = "adv" \/ fence # "bare"

\* json.loads of the body of text t
JsonLoads(t, clean) ==
    IF ~clean THEN Raised("JSONDecodeError")
    ELSE CASE t.body = "array"      -> Returned([shape |-> "objects", n |-> t.n])
           [] t.body = "bad_number" -> Returned([shape |-> "bad_number", n |-> t.n])
           [] t.body = "scalars"    -> Returned([shape |-> "scalars", n |-> t.n])
           [] t.body = "matches"    -> Returned([shape |-> "dict", n |-> 1])
           [] t.body = "object"     -> Returned([shape |-> "dict", n |-> NumKeys(t.obj)])
           [] OTHER                 -> Raised("JSONDecodeError")

\* "for item_data in adverse_data: AdverseMediaItem(... item_data.get ...)":
\* iterating a dict yields its keys, and neither str nor int has get;
\* float('high') raises ValueError (adverse media only)
ConvertItems(parser, data, via) ==
    IF data.n = 0 THEN ItemList(0, via)
    ELSE CASE data.shape = "objects"    -> ItemList(data.n, via)
           [] data.shape = "bad_number" ->
                IF parser = "adv" THEN Raised("ValueError") ELSE ItemList(data.n, via)
           [] OTHER                     -> Raised("AttributeError")

\* the outer handlers of a list parser: return []
ListHandler(x) ==
    IF x.exc = "none" THEN x
    ELSE IF ParserCatches(x.exc) THEN ItemList(0, "handler")
    ELSE x

\* the characters of n item objects in a row, as far as the recovery looks
\* at them: "{", the fields of the item ("item"), "}", and "," between items
RECURSIVE ItemsText(_)
ItemsText(n) ==
    IF n = 0 THEN <<>>
    ELSE IF n = 1 THEN <<"{", "item", "}">>
    ELSE ItemsText(n - 1) \o <<",", "{", "item", "}">>

\* the content string of text t; "str}" is a string value with a "}" in it,
\* "text" anything without brackets
Chars(t) ==
    LET head == <<"[">> \o ItemsText(t.n) \o (IF t.n > 0 THEN <<",">> ELSE <<>>)
    IN  CASE t.body \in {"array", "bad_number"} -> <<"[">> \o ItemsText(t.n) \o <<"]">>
          [] t.body = "array_truncated"       -> head \o <<"{", "item">>
          [] t.body = "array_truncated_brace" -> head \o <<"{", "str}", "item">>
          [] t.body = "scalars"                -> <<"[", "text", "]">>
          [] t.body \in {"object", "matches"}  -> <<"{", "item", "}">>
          [] t.body = "empty"                  -> <<>>
          [] OTHER                             -> <<"text">>

\* content.rfind('}'), counted from 1 (0: no "}" in the content)
RFindBrace(c) ==
    LET at == { i \in 1..Len(c) : c[i] \in {"}", "str}"} }
    IN  IF at = {} THEN 0 ELSE CHOOSE i \in at : \A j \in at : j <= i

\* json.loads of an array text: the number of item objects of the array it
\* spells, -1 for json.JSONDecodeError
LoadsArray(c) ==
    LET ns == { k \in 0..Len(c) : c = <<"[">> \o ItemsText(k) \o <<"]">> }
    IN  IF ns = {} THEN -1 ELSE CHOOSE k \in ns : TRUE

\* AWSNovaProAdverseAnalyzer._parse_nova_response, inner handler: cut after
\* the last "}" and close the array (content[:last_brace+1] + ']'; a cut at
\* the "}" of a string value leaves the string unterminated); without a
\* "}", or when the cut text does not parse either, give up
AdvRecover(t) ==
    LET c    == Chars(t)
        last == RFindBrace(c)
        truncated_content ==
            (IF c[last] = "}" THEN SubSeq(c, 1, last)
                              ELSE SubSeq(c, 1, last - 1) \o <<"str_cut">>) \o <<"]">>
    IN  IF last > 0 /\ LoadsArray(truncated_content) >= 0
        THEN ConvertItems("adv", [shape |-> "objects",
                                  n |-> LoadsArray(truncated_content)],
                          "recovered")
        ELSE ItemList(0, "unrecoverable")

\* AWSNovaProAdverseAnalyzer._parse_nova_response, body of the try
AdvParseBody(r) ==
    LET c == ExtractContent(r)
    IN  IF c.exc # "none" THEN c
        ELSE IF c.val.kind = "unexpected" THEN ItemList(0, "unexpected")
        ELSE IF c.val.kind = "list" THEN Raised("AttributeError")
        ELSE IF c.val.body = "empty" \/ (c.val.body = "array" /\ c.val.n = 0)
        THEN ItemList(0, "empty")
        ELSE LET d == JsonLoads(c.val, FenceRemoved("adv", c.val.fence))
             IN  IF d.exc = "none" THEN ConvertItems("adv", d.val, "parsed")
                 ELSE AdvRecover(c.val)

AdvParseNovaResponse(r) == ListHandler(AdvParseBody(r))

\* AWSNovaProExtractor._parse_nova_response (cxo_website_extractor), body
\* of the try: no recovery pass
CxoParseBody(r) ==
    LET c == ExtractContent(r)
    IN  IF c.exc # "none" THEN c
        ELSE IF c.val.kind = "unexpected" THEN ItemList(0, "unexpected")
        ELSE IF c.val.kind = "list" THEN Raised("AttributeError")
        ELSE LET d == JsonLoads(c.val, FenceRemoved("cxo", c.val.fence))
             IN  IF d.exc = "none" THEN ConvertItems("cxo", d.val, "parsed") ELSE d

CxoParseNovaResponse(r) == ListHandler(CxoParseBody(r))

\* what lies between the first "{" and the last "}" of a text
\* (re.search(r'\{.*\}', text, re.DOTALL); find('{') .. rfind('}')):
\* "none", one object, the matches object, or a span json.loads rejects
\* (several objects in a row, the repr of a dict)
BraceSpan(t) ==
    CASE t.body \in {"array", "array_truncated", "bad_number"} ->
           IF t.n = 0 THEN "none" ELSE IF t.n = 1 THEN "object" ELSE "rejected"
      [] t.body = "array_truncated_brace" -> "rejected"
      [] t.body = "repr"    -> "rejected"
      [] t.body = "object"  -> "object"
      [] t.body = "matches" -> "matches"
      [] OTHER              -> "none"

\* the object of a one-object span: the answer's object, or an item of an
\* array, which has none of the company keys
SpanObject(t) == IF t.body = "object" THEN t.obj ELSE EmptyObject

\* SerperSanctionsSearcher._parse_nova_sanctions_response, body of the try:
\* the matches appended so far
SancParseBody(t) ==
    CASE BraceSpan(t) = "none"       -> ItemList(0, "no_json")
      [] BraceSpan(t) = "rejected" -> Raised("JSONDecodeError")
      [] BraceSpan(t) = "matches"    -> ItemList(t.n, "parsed")
      [] OTHER                       -> ItemList(0, "parsed")

\* the handlers log, then "return matches"
SancParseNovaSanctionsResponse(t) == ListHandler(SancParseBody(t))

\* a CompanyInfo / PrivateCompanyInfo: the path that made it, the evidence
\* string a fallback worked on, what the scalar fields hold, and
\* company_identifiers
CompanyInfo(via, snippets, sc, ids) ==
    [kind |-> "CompanyInfo", via |-> via, snippets |-> snippets,
     scalars |-> sc, ids |-> ids]

\* NovaProExtractor._enhanced_fallback_extraction(company_name,
\* document_urls, search_snippets): all four identifier keys, CIK from the
\* URLs or the sentinel
EnhancedFallbackExtraction(snippets) ==
    CompanyInfo("fallback", snippets, "sentinel", Identifiers(IdKeys, FALSE))

\* NovaProPrivateExtractor._fallback_extraction: company_identifiers={}
FallbackExtraction ==
    CompanyInfo("fallback", "none", "sentinel", Identifiers({}, FALSE))

\* data.get(key, sentinel) for the scalar keys, data.get(
\* 'company_identifiers', {})
FromData(o) ==
    CompanyInfo("parsed", "none",
                IF o.scalars = "omitted" THEN "sentinel" ELSE o.scalars,
                IF o.ids = NoIdentifiers THEN Identifiers({}, FALSE) ELSE o.ids)

\* NovaProExtractor._parse_nova_response, body of the try
SecParseBody(t) ==
    CASE BraceSpan(t) = "none"       -> Raised("ValueError")
      [] BraceSpan(t) = "rejected" -> Raised("JSONDecodeError")
      [] BraceSpan(t) = "matches"    -> Returned(FromData(EmptyObject))
      [] OTHER                       -> Returned(FromData(SpanObject(t)))

\* "except Exception": _enhanced_fallback_extraction(company_name,
\* document_urls, "")
SecParseNovaResponse(t) ==
    LET x == SecParseBody(t)
    IN  IF x.exc = "none" THEN x
        ELSE IF ParserCatches(x.exc) THEN Returned(EnhancedFallbackExtraction("empty"))
        ELSE x

\* NovaProPrivateExtractor._parse_nova_response
PrivParseNovaResponse(t) ==
    LET x == CASE BraceSpan(t) = "none"       -> Returned(FallbackExtraction)
               [] BraceSpan(t) = "rejected" -> Raised("JSONDecodeError")
               [] BraceSpan(t) = "matches"    -> Returned(FromData(EmptyObject))
               [] OTHER                       -> Returned(FromData(SpanObject(t)))
    IN  IF x.exc = "none" THEN x
        ELSE IF ParserCatches(x.exc) THEN Returned(FallbackExtraction)
        ELSE x

\* NovaProExtractor.extract_company_data, lines 159-165: the text handed to
\* the parser
SecExtractedText(e, t) ==
    CASE e = "output_message"    -> Returned(t)
      [] e = "output_no_content" -> Raised("IndexError")
      [] e = "output_no_message" -> Raised("KeyError")
      [] e = "content_blocks"    -> Returned(t)
      [] e = "content_text"      -> Raised("TypeError")
      \* str(response_body) of a dict without 'output' and 'content'
      [] e = "neither"           -> Returned(Text("none", "repr", 0, EmptyObject))
      [] e = "not_a_dict"        -> Raised("TypeError")

\* NovaProExtractor.extract_company_data(company_name, document_urls,
\* search_snippets): a.client: self.bedrock_client is set; a.call: how
\* invoke_model goes; a.env, a.text: its response
ExtractCompanyData(a) ==
    IF ~a.client THEN Returned(EnhancedFallbackExtraction(a.snippets))
    ELSE LET x == IF a.call = "raises" THEN Raised("ClientError")
                  ELSE LET t == SecExtractedText(a.env, a.text)
                       IN  IF t.exc # "none" THEN t ELSE SecParseNovaResponse(t.val)
         IN  \* "except Exception"
             IF x.exc = "none" THEN x
             ELSE Returned(EnhancedFallbackExtraction(a.snippets))

\* the 7 main_fields of NovaSECExtractor._calculate_completeness other
\* than business_description
SecPlainFields == 7

\* the dict given to NovaSECExtractor._calculate_completeness: plain of the
\* 7 plain main fields and ids of the 4 identifiers hold a value, the others
\* the sentinel; desc is what business_description holds: the sentinel, a
\* description of at most 100 characters ("short"), a longer one ("long"),
\* or a longer one with the words 'Business information available'
SecInfos ==
    { [plain |-> pl, desc |-> d, ids |-> i] :
        pl \in 0..SecPlainFields,
        d \in {"sentinel", "short", "long", "generic"},
        i \in 0..Cardinality(IdKeys) }

\* filled_fields: "if value and value != 'Not specified in SEC documents'",
\* for business_description also "len(value) > 100 and 'Business
\* information available' not in value"
SecFilledFields(info) ==
    info.plain + (IF info.desc = "long" THEN 1 ELSE 0) + info.ids

SecCompletenessOfInfo(info) ==
    SecCalculateCompleteness(Record(0, SecFilledFields(info), SecTotalFields, 0))

\* the 14 fields of PrivateCompanyInfo without company_identifiers and
\* leadership_team; ids: the company_identifiers dict; leadership: a string
\* (leaves = -1) or a dict with so many leaf sub-fields, filled of them set
PrivInfos ==
    { [scalars |-> sc, ids |-> i, leaves |-> l, filled |-> f] :
        sc \in 0..PrivScalarFields,
        i \in { Identifiers(k, b) : k \in SUBSET IdKeys, b \in BOOLEAN },
        l \in -1..MaxExtraLeaves,
        f \in 0..MaxExtraLeaves }

\* total_fields: one per field of the "else" branch, one per key of the
\* identifiers dict, one per leaf of a dict-valued leadership_team (a
\* string is replaced by {} before it is looked at)
PrivTotalFields(info) ==
    PrivScalarFields + Cardinality(info.ids.keys) + Max(info.leaves, 0)

PrivFilledFields(info) ==
    info.scalars + (IF info.ids.filled THEN Cardinality(info.ids.keys) ELSE 0)
      + Min(info.filled, Max(info.leaves, 0))

\* NovaProPrivateExtractor._calculate_completeness: the counters at the
\* return and the value returned
PrivCompletenessScore(info) ==
    [filled  |-> PrivFilledFields(info),
     total   |-> PrivTotalFields(info),
     percent |-> PrivCalculateCompleteness(
                   Record(0, PrivFilledFields(info), PrivTotalFields(info), 0))]

\* a URL as a string: protocol, an optional leading "www.", host and path
\* (page), an optional trailing slash
Urls ==
    { [proto |-> pr, www |-> w, page |-> pg, slash |-> sl] :
        pr \in {"http", "https"}, w \in BOOLEAN, pg \in 1..2, sl \in BOOLEAN }

\* the URL with protocol, leading www. and trailing slash stripped
Normalized(u) == u.page

\* hit lists of up to MaxHits results; src is the position in the list
HitLists ==
    UNION { { [i \in 1..n |-> Hit(f[i], i)] : f \in [1..n -> Urls] } : n \in 0..MaxHits }

\* what _prioritize_sec_documents looks for in one organic result:
\*   url_sec        'sec.gov' or 'edgar' in the URL
\*   url_cur        current_year in the URL,   url_prev: previous_year
\*   url_name       a part of the company name (over 3 letters) in the URL
\*   url_symbol     the stock symbol in the URL
\*   title_10k / title_10q / title_8k   '10-k' / '10-q' / '8-k' in the title
\*   title_cur      current_year in the title
\*   title_earnings 'earnings' in the title,  snip_earnings: in the snippet
\*   title_name     a part of the company name in the title
\*   snip_financial 'financial results' in the snippet
\*   other_filing   another filing keyword ('annual report', ...) in title
\*                  or snippet
\*   other_year     a target-year keyword elsewhere in title or snippet
\*   other_company  a company keyword in the snippet
Atoms ==
    {"url_sec", "url_cur", "url_prev", "url_name", "url_symbol",
     "title_10k", "title_10q", "title_8k", "title_cur", "title_earnings",
     "title_name", "snip_earnings", "snip_financial",
     "other_filing", "other_year", "other_company"}

\* the result in which exactly the atoms of set on are found
Features(on) == [a \in Atoms |-> a \in on]

\* the year argument: "both" is the default f"{current_year} OR
\* {previous_year}", "cur" a caller asking for the current year
Years == {"both", "cur"}

IsSecFiling(h) ==
    \/ h["title_10k"] \/ h["title_10q"] \/ h["title_8k"]
    \/ h["title_earnings"] \/ h["snip_earnings"] \/ h["other_filing"]

IsTargetYear(h, y) ==
    \/ h["other_year"]
    \/ h["url_cur"] \/ h["title_cur"]
    \/ (y = "both" /\ h["url_prev"])

IsTargetCompany(h) ==
    h["other_company"] \/ h["url_name"] \/ h["title_name"] \/ h["url_symbol"]

\* "if cond: priority_score += w"
Boost(cond, w) == IF cond THEN w ELSE 0

\* priority_score of one result, lines 1016-1048
PriorityScore(h, y) ==
      Boost(h["url_sec"], 10)
    + Boost(IsSecFiling(h), 10)
    + Boost(IsTargetYear(h, y), 20)
    + Boost(IsTargetCompany(h), 25)
    + (IF h["url_cur"] THEN 25 ELSE IF h["url_prev"] THEN 15 ELSE 0)
    + Boost(h["title_10k"], 20)
    + Boost(h["title_10q"] /\ h["title_cur"], 18)
    + Boost(h["title_earnings"] \/ h["snip_earnings"], 15)
    + (IF h["title_8k"] /\ (h["snip_earnings"] \/ h["snip_financial"]) THEN 12
       ELSE IF h["title_8k"] THEN 5 ELSE 0)
    + Boost(h["snip_earnings"] \/ h["snip_financial"], 10)
    + Boost(h["url_name"], 15)
    + Boost(h["title_name"], 10)
    + Boost(h["url_symbol"], 20)

\* a filter that drops the results scoring exactly the threshold
PassesThresholdStrict(score) == score > MinPriorityScore

\* "if priority_score >= 15"
PassesThreshold(score) == score >= MinPriorityScore

RECURSIVE ScoredResults(_, _)
\* the loop over search_results['organic']: sec_results before the sort
ScoredResults(hits, y) ==
    IF hits = <<>> THEN <<>>
    ELSE LET h == Head(hits)
         IN  (IF PassesThreshold(PriorityScore(h.feat, y))
              THEN <<[url |-> h.link, feat |-> h.feat,
                      priority_score |-> PriorityScore(h.feat, y)]>>
              ELSE <<>>)
             \o ScoredResults(Tail(hits), y)

RECURSIVE SortByPriority(_)
\* sec_results.sort(key=priority_score, reverse=True): stable, equal scores
\* keep their order
SortByPriority(rs) ==
    IF rs = <<>> THEN <<>>
    ELSE LET top  == CHOOSE i \in 1..Len(rs) :
                       /\ \A j \in 1..Len(rs) : rs[j].priority_score <= rs[i].priority_score
                       /\ \A j \in 1..(i - 1) : rs[j].priority_score < rs[i].priority_score
             rest == [j \in 1..(Len(rs) - 1) |-> IF j < top THEN rs[j] ELSE rs[j + 1]]
         IN  <<rs[top]>> \o SortByPriority(rest)

\* NovaSECExtractor._prioritize_sec_documents: (document_urls, sec_results)
PrioritizeSecDocuments(a) ==
    LET sorted == SortByPriority(ScoredResults(a.hits, a.year))
    IN  [document_urls |-> [k \in 1..Len(sorted) |-> sorted[k].url],
         sec_results   |-> sorted]

\* SerperAdverseMediaSearcher._quick_adverse_filter: the adverse_keywords
\* list, cut down to five of its entries in their order; 'violation' is
\* listed under "Financial/Regulatory" and again under
\* "Regulatory/Compliance"
AdverseKeywords == <<"lawsuit", "violation", "fraud", "breach", "violation">>

\* an article as the filter sees it: whether the company name and an
\* exclusion keyword occur in title + " " + snippet, and which adverse
\* keywords occur in the title and in the snippet
Articles ==
    LET words == { AdverseKeywords[i] : i \in DOMAIN AdverseKeywords }
    IN  { [name |-> n, exclusion |-> e, title |-> t, snippet |-> sn] :
            n \in BOOLEAN, e \in BOOLEAN, t \in SUBSET words, sn \in SUBSET words }

\* "sum(1 for keyword in adverse_keywords if keyword in combined_text)":
\* one for every entry of the list that occurs
AdverseMatches(a) ==
    Cardinality({ i \in DOMAIN AdverseKeywords :
                    AdverseKeywords[i] \in a.title \cup a.snippet })

\* the body of the loop: TRUE when the article is appended
PassesQuickFilter(a) ==
    /\ a.name
    /\ ~a.exclusion
    /\ \/ AdverseMatches(a) >= 2
       \/ \E i \in DOMAIN AdverseKeywords : AdverseKeywords[i] \in a.title

\* the functions applied on their own and the arguments tried
ArgsOf(f) ==
    CASE f = "adv_parse_nova_response"            -> ListResponses
      [] f = "cxo_parse_nova_response"            -> ListResponses
      [] f = "sanc_parse_nova_sanctions_response" -> Texts
      [] f = "sec_parse_nova_response"            -> Texts
      [] f = "priv_parse_nova_response"           -> Texts
      \* the evidence strings: "" and a string of search snippets
      [] f = "sec_extract_company_data" ->
           { [client |-> c, call |-> k, env |-> e, text |-> t, snippets |-> sn] :
               c \in BOOLEAN, k \in {"ok", "raises"}, e \in Envelopes,
               t \in Texts, sn \in {"empty", "snippets"} }
      [] f = "sec_calculate_completeness"         -> SecInfos
      [] f = "cxo_calculate_completeness"         -> CxoRecords(0)
      [] f = "priv_calculate_completeness"        -> PrivInfos
      [] f = "adv_deduplicate_articles"           -> HitLists
      [] f = "cxo_combine_search_results"         -> HitLists
      [] f = "sec_priority_score" ->
           { [hit |-> h, year |-> y] : h \in [Atoms -> BOOLEAN], y \in Years }
      \* organic results, link being the position of the result; the results
      \* tried in lists: nothing found, the SEC domain only, 8-K in the title
      \* only, another filing keyword only, a 10-K on sec.gov, the previous
      \* year in the URL only
      [] f = "sec_prioritize_sec_documents" ->
           LET sample == { Features({}), Features({"url_sec"}),
                           Features({"title_8k"}), Features({"other_filing"}),
                           Features({"url_sec", "title_10k"}),
                           Features({"url_prev"}) }
           IN  UNION { { [hits |-> [i \in 1..n |-> [link |-> i, feat |-> ft[i]]],
                          year |-> y] :
                           ft \in [1..n -> sample], y \in Years } : n \in 0..MaxHits }
      [] f = "adv_quick_adverse_filter"           -> { <<a>> : a \in Articles }

Functions ==
    {"adv_parse_nova_response", "cxo_parse_nova_response",
     "sanc_parse_nova_sanctions_response", "sec_parse_nova_response",
     "priv_parse_nova_response", "sec_extract_company_data",
     "sec_calculate_completeness", "cxo_calculate_completeness",
     "priv_calculate_completeness", "adv_deduplicate_articles",
     "cxo_combine_search_results", "sec_priority_score",
     "sec_prioritize_sec_documents", "adv_quick_adverse_filter"}

CallInit ==
    /\ FanIdle
    /\ fn \in Functions
    /\ arg \in ArgsOf(fn)
    /\ pc = "call"
    /\ max_retries = 0
    /\ bedrock_client = TRUE
    /\ attempt = 0
    /\ best_result = None
    /\ best_completeness = 0
    /\ completeness = 0
    /\ result = None
    /\ ret = None
    /\ ret_completeness = 0
    /\ saved = <<>>
    /\ prompt = "none"
    /\ StoreIdle
    /\ searches = 0
    /\ extractions = 0
    /\ nEvaluated = 0
    /\ maxEvaluated = -1

\* function f is applied to arg and hands v back
Apply(f, v) ==
    /\ fn = f
    /\ pc = "call"
    /\ ret' = v
    /\ pc' = "returned"
    /\ UNCHANGED <<fn, arg, max_retries, bedrock_client, attempt, best_result,
                   best_completeness, completeness, result, ret_completeness,
                   saved, prompt, searches, extractions, nEvaluated, maxEvaluated>>
    /\ UNCHANGED <<fanVars, storeVars>>

CallNext ==
    \/ Apply("adv_parse_nova_response", AdvParseNovaResponse(arg))
    \/ Apply("cxo_parse_nova_response", CxoParseNovaResponse(arg))
    \/ Apply("sanc_parse_nova_sanctions_response", SancParseNovaSanctionsResponse(arg))
    \/ Apply("sec_parse_nova_response", SecParseNovaResponse(arg))
    \/ Apply("priv_parse_nova_response", PrivParseNovaResponse(arg))
    \/ Apply("sec_extract_company_data", ExtractCompanyData(arg))
    \/ Apply("sec_calculate_completeness", Returned(SecCompletenessOfInfo(arg)))
    \/ Apply("cxo_calculate_completeness", Returned(CxoCalculateCompleteness(arg)))
    \/ Apply("priv_calculate_completeness", Returned(PrivCompletenessScore(arg)))
    \/ Apply("adv_deduplicate_articles", Returned(DeduplicateArticles(arg)))
    \* _combine_search_results on the results of one search that returned
    \* the hit list
    \/ Apply("cxo_combine_search_results",
             Returned(CombineSearchResults(<<SearchData(arg, 0)>>).organic))
    \/ Apply("sec_priority_score", Returned(PriorityScore(arg.hit, arg.year)))
    \/ Apply("sec_prioritize_sec_documents", Returned(PrioritizeSecDocuments(arg)))
    \* "for article in articles: ...": the articles that are appended
    \/ Apply("adv_quick_adverse_filter", Returned(SelectSeq(arg, PassesQuickFilter)))

CallSpec == CallInit /\ [][CallNext]_vars

(* ======================================================================= *)
(* The stores: the runs that persist a result with table.put_item          *)
(* (_save_to_dynamodb of the SEC, private-company and sanctions paths,     *)
(* CxOResultsFormatter.save_to_dynamodb) and the merge runs that upload a  *)
(* timestamped object and the *_latest object to the bucket                *)
(* (DynamoDBS3Merger.run / run_private_only, DynamoDBToS3Merger.save_to_s3)*)
(* Runs are separate processes (Lambda invocations): their steps           *)
(* interleave.  The clock counts ticks, the resolution of datetime.now();  *)
(* a persisting run reads it later than every persisting run before it.    *)
(* ======================================================================= *)
\* ticks in one second: strftime('%Y%m%d_%H%M%S') drops what isoformat() keeps
TicksPerSecond == 2

Companies == {"acme"}

\* datetime.now().strftime('%Y%m%d_%H%M%S'): the second of the reading
Strftime(t) == t \div TicksPerSecond

\* the sort key a persisting run builds at clock reading t (idx: the number
\* of the executive, CxO only); datetime.now().isoformat() is the reading
\* in full:
\*   sec, priv  'extraction_timestamp': timestamp
\*   cxo        'executive_id': f"{company_name_clean}_{idx}_{timestamp}"
\*   sanc       'screening_id': f"sanctions_{strftime('%Y%m%d_%H%M%S')}"
SortKey(sink, idx, t) ==
    CASE sink = "cxo"  -> <<idx, t>>
      [] sink = "sanc" -> <<Strftime(t)>>
      [] OTHER         -> <<t>>

\* the primary key of an item: its table, partition key and sort key
PrimaryKey(sink, company, idx, t) ==
    [table |-> sink, company_id |-> company, sort |-> SortKey(sink, idx, t)]

\* table.put_item(Item=item) / s3_client.put_object(Key=key, Body=body): an
\* item or object with the same key is replaced
Put(store, key, content) == (key :> content) @@ store

\* number of executives of the CxO result that is persisted
NumExecutives == 2

RECURSIVE PutAll(_, _, _)
\* the put_item calls ks (a sequence of keys) in order; the n-th put of the
\* behaviour writes content n
PutAll(tab, ks, done) ==
    IF ks = <<>> THEN tab
    ELSE PutAll(Put(tab, Head(ks), done + 1), Tail(ks), done + 1)

\* one persisting run: it reads the clock once, up to a second after the
\* reading before, and writes its item (CxO: one item per executive)
Persist(sink, company) ==
    /\ Len(puts) < MaxPuts
    /\ \E d \in 1..TicksPerSecond :
         LET t  == clock + d
             ks == IF sink = "cxo"
                   THEN [i \in 1..NumExecutives |-> PrimaryKey(sink, company, i, t)]
                   ELSE <<PrimaryKey(sink, company, 0, t)>>
         IN  /\ clock' = t
             /\ table' = PutAll(table, ks, Len(puts))
             /\ puts' = puts \o [i \in 1..Len(ks) |-> [key |-> ks[i], at |-> t]]
    /\ UNCHANGED <<bucket, merge, last_written>>
    /\ UNCHANGED <<retryVars, fanVars>>

\* f"{prefix}/{company_id}_{timestamp}.json" for a timestamp
\* (stamp = <<second>>), f"{prefix}/{company_id}_latest.json" (stamp = <<>>);
\* the prefix is 'private_company_data' in run_private_only
ObjectKey(mode, company, stamp) ==
    [prefix  |-> IF mode = "private_only" THEN "private_company_data"
                                          ELSE "company_data",
     company |-> company,
     stamp   |-> stamp]

\* what a merge run reads from the tables: every item of the company
\* (run), or the items of the private table (run_private_only, which takes
\* the one with the greatest extraction_timestamp)
ExtractData(mode, company) ==
    LET ks == { k \in DOMAIN table :
                  /\ k.company_id = company
                  /\ mode = "private_only" => k.table = "priv" }
    IN  [k \in ks |-> table[k]]

\* extract_data and merge_data / _query_by_company_id; run_private_only
\* returns 'no_data' when the private table has nothing for the company.
\* Runs are numbered in the order in which they start.
MergeExtract(r) ==
    /\ merge[r].pc = "idle"
    /\ r > 1 => merge[r - 1].pc # "idle"
    /\ \E mode \in {"merged", "private_only"}, company \in Companies :
         LET data == ExtractData(mode, company)
         IN  merge' = [merge EXCEPT ![r] =
                         [pc      |-> IF mode = "private_only" /\ DOMAIN data = {}
                                      THEN "done" ELSE "extracted",
                          mode    |-> mode,
                          company |-> company,
                          data    |-> data]]
    /\ UNCHANGED <<clock, table, puts, bucket, last_written>>
    /\ UNCHANGED <<retryVars, fanVars>>

\* "timestamp = datetime.now().strftime(...)" and the upload of the
\* timestamped object; a put_object that raises ends the run
MergeUploadData(r) ==
    /\ merge[r].pc = "extracted"
    /\ \E ok \in BOOLEAN :
         LET m == merge[r]
         IN  /\ IF ok
                THEN /\ bucket' = Put(bucket, ObjectKey(m.mode, m.company, <<Strftime(clock)>>),
                                      m.data)
                     /\ last_written' =
                          (ObjectKey(m.mode, m.company, <<>>) :> m.data) @@ last_written
                     /\ merge' = [merge EXCEPT ![r].pc = "uploaded"]
                ELSE /\ merge' = [merge EXCEPT ![r].pc = "failed"]
                     /\ UNCHANGED <<bucket, last_written>>
    /\ UNCHANGED <<clock, table, puts>>
    /\ UNCHANGED <<retryVars, fanVars>>

\* the upload of the *_latest object; a put_object that raises ends the run
MergeUploadLatest(r) ==
    /\ merge[r].pc = "uploaded"
    /\ \E ok \in BOOLEAN :
         LET m == merge[r]
         IN  IF ok
             THEN /\ bucket' = Put(bucket, ObjectKey(m.mode, m.company, <<>>), m.data)
                  /\ merge' = [merge EXCEPT ![r].pc = "done"]
             ELSE /\ merge' = [merge EXCEPT ![r].pc = "failed"]
                  /\ UNCHANGED bucket
    /\ UNCHANGED <<clock, table, puts, last_written>>
    /\ UNCHANGED <<retryVars, fanVars>>

StoreInit ==
    /\ FanIdle
    /\ clock = 0
    /\ table = <<>>
    /\ puts = <<>>
    /\ bucket = <<>>
    /\ merge = [r \in 1..MaxMerges |->
                  [pc |-> "idle", mode |-> "none", company |-> "none", data |-> <<>>]]
    /\ last_written = <<>>
    \* no retry loop is running
    /\ fn = "none"
    /\ arg = None
    /\ max_retries = 0
    /\ bedrock_client = TRUE
    /\ pc = "returned"
    /\ attempt = 0
    /\ best_result = None
    /\ best_completeness = 0
    /\ completeness = 0
    /\ result = None
    /\ ret = None
    /\ ret_completeness = 0
    /\ saved = <<>>
    /\ prompt = "none"
    /\ searches = 0
    /\ extractions = 0
    /\ nEvaluated = 0
    /\ maxEvaluated = -1

StoreNext ==
    \/ \E sink \in {"sec", "priv", "cxo", "sanc"}, company \in Companies :
         Persist(sink, company)
    \/ \E r \in DOMAIN merge : MergeExtract(r)
    \/ \E r \in DOMAIN merge : MergeUploadData(r)
    \/ \E r \in DOMAIN merge : MergeUploadLatest(r)

StoreSpec == StoreInit /\ [][StoreNext]_vars

(* ======================= properties of the retry loops ================= *)
\* the completeness the loop that is running computes for a record
CompletenessOf(r) ==
    CASE fn = "sec"  -> SecCalculateCompleteness(r)
      [] fn = "cxo"  -> CxoCalculateCompleteness(r)
      [] fn = "priv" -> PrivCalculateCompleteness(r)

\* attempts one run may start
Budget == IF fn = "priv" THEN PrivMaxAttempts ELSE max_retries + 1

\* number of the last attempt the budget allows
LastAttempt == IF fn = "priv" THEN PrivMaxAttempts ELSE max_retries

\* C1: when all max_retries + 1 attempts of search_and_extract or
\* search_cxo_from_website were evaluated with completeness below 95, the run
\* returns a record of one of its attempts whose completeness is the highest
\* evaluated in the run.
C1_ReturnsHighestAttempt ==
    ( /\ fn \in {"sec", "cxo"}
      /\ pc = "returned"
      /\ nEvaluated = max_retries + 1
      /\ maxEvaluated < TargetCompleteness )
    => ( /\ ret.kind = "record"
         /\ CompletenessOf(ret) = maxEvaluated )

\* C2: extract_private_company_data never regresses: the pair it returns
\* carries the highest completeness evaluated in any attempt of the call.
C2_PrivNeverRegresses ==
    ( /\ fn = "priv"
      /\ pc = "returned"
      /\ nEvaluated > 0 )
    => ret_completeness = maxEvaluated

\* C3: in search_and_extract and search_cxo_from_website the tracked best
\* completeness equals, after every evaluated attempt, the maximum
\* completeness over the attempts evaluated so far, and it never decreases.
C3_BestIsRunningMax ==
    /\ []( (fn \in {"sec", "cxo"} /\ nEvaluated > 0)
             => best_completeness = maxEvaluated )
    /\ [][(fn \in {"sec", "cxo"}) => (best_completeness' >= best_completeness)]_vars

\* a later attempt scored below the best one kept, after at least one
\* replacement of the best
C3_Witness ==
    /\ fn \in {"sec", "cxo"}
    /\ nEvaluated >= 2
    /\ best_result # None
    /\ best_result.att < result.att
    /\ completeness < best_completeness

\* C4: a run executes the search at most Budget times and makes at most
\* Budget extraction calls (max_retries + 1, or 3 for
\* extract_private_company_data); no attempt numbered above the budget is
\* started and the attempt counter only increases.
C4_AttemptBudget ==
    /\ []( /\ searches <= Budget
           /\ extractions <= Budget
           /\ attempt <= LastAttempt )
    /\ [][(attempt' >= attempt)]_vars

\* the whole budget was used, the last attempt ending in an exception
C4_Witness ==
    /\ pc = "returned"
    /\ extractions = Budget
    /\ attempt = LastAttempt
    /\ nEvaluated < extractions
    /\ max_retries = MaxRetriesBound

\* C5: whenever an attempt's completeness is >= 95 the run stops at that
\* attempt: it has returned that attempt's own record, and no search or
\* extraction call follows.
C5_SatisfiedStops ==
    /\ []( (nEvaluated > 0 /\ completeness >= TargetCompleteness)
             => /\ pc = "returned"
                /\ ret = result
                /\ ret.kind = "record"
                /\ ret.att = attempt
                /\ fn = "priv" => ret_completeness = completeness )
    /\ [][(nEvaluated > 0 /\ completeness >= TargetCompleteness)
             => (UNCHANGED <<searches, extractions, attempt>>)]_vars

\* a retry reached the threshold after an earlier attempt had fallen short
C5_Witness ==
    /\ pc = "returned"
    /\ nEvaluated >= 2
    /\ completeness >= TargetCompleteness
    /\ attempt < LastAttempt

\* C7: search_cxo_from_website always returns a CxOSearchResults object,
\* never None.
C7_CxoNeverReturnsNone ==
    (fn = "cxo" /\ pc = "returned") => ret.kind = "record"

(* ========================= properties of a scan ======================== *)
RECURSIVE HitsOf(_, _)
\* the hits a returned batch result contains
HitsOf(f, results) ==
    IF f = "adv" THEN results
    ELSE IF results = <<>> THEN <<>>
    ELSE Organic(IF f = "sanc" THEN Head(results).results ELSE Head(results))
         \o HitsOf(f, Tail(results))

RECURSIVE InSubmissionOrder(_, _)
\* the batch result had the futures completed in the order of submission:
\* queries q..NumQueries consumed after acc
InSubmissionOrder(q, acc) ==
    IF q > NumQueries THEN acc
    ELSE InSubmissionOrder(q + 1, Collected(fan, acc, q, outcome[q], response[q]))

AllSearchesFailed == \A q \in Queries : outcome[q] \in {"fail", "raise"}

\* C6: a scan whose searches all failed, or whose extraction call failed or
\* returned unparsable text, hands its caller a result that differs from the
\* result of a successful extraction that found zero items.
C6_FailureDistinguishable ==
    ( /\ fan \in {"adv", "sanc"}
      /\ fanPc = "done"
      /\ \/ analysis \in {"call_fails", "unparsable"}
         \/ AllSearchesFailed )
    => scan_result # ScanResult(fan, evidence, 0)

C9_BatchEventuallyReturns == <>(fanPc # "collect")

\* C10: the evidence handed to the extractor is the one the responses give
\* when consumed in submission order, whatever the completion order was.
C10_EvidenceOrderIndependent ==
    (fan \in {"cxo", "adv"} /\ fanPc \in {"prepared", "done"})
    => evidence = EvidenceFor(fan, InSubmissionOrder(1, <<>>))

\* C11: during a batch the accumulator is written by the collecting thread
\* only, one consumed future at a time: every step that changes it is the
\* collector's step for one finished future, no worker step changes it, and
\* it does not change once the batch has returned.
C11_SingleWriter ==
    [][(all_results' # all_results)
         => ( /\ fanPc = "collect"
              /\ \E q \in Queries :
                   /\ future[q] = "finished"
                   /\ future' = [future EXCEPT ![q] = "collected"]
                   /\ all_results' =
                        Collected(fan, all_results, q, outcome[q], response[q]) )]_vars

\* the collector has stored the hits of one query while another worker is
\* still in flight and a third one has finished with hits of its own
C11_Witness ==
    /\ fanPc = "collect"
    /\ all_results # <<>>
    /\ \E q1, q2, q3 \in Queries :
         /\ future[q1] = "collected" /\ Organic(response[q1]) # <<>>
         /\ future[q2] = "running"
         /\ future[q3] = "finished" /\ Organic(response[q3]) # <<>>

\* C12: at no time are more than max_workers search calls of a batch in
\* flight (5 adverse media, 6 CxO, 7 sanctions), however many queries were
\* submitted.
C12_PoolBound ==
    Cardinality(Running) <=
        CASE fan = "adv"  -> AdvMaxWorkers
          [] fan = "cxo"  -> CxoMaxWorkers
          [] fan = "sanc" -> SancMaxWorkers
          [] OTHER        -> 0

\* every thread of the pool is busy and a submitted task is waiting
C12_Witness ==
    /\ fan \in {"adv", "cxo", "sanc"}
    /\ Cardinality(Running) = MaxWorkers(fan)
    /\ \E t \in DOMAIN future : future[t] = "queued"
    /\ \E t \in DOMAIN future : future[t] = "finished"

(* =============== properties of the functions applied alone ============= *)
\* C13: parsing an extraction response never raises to the caller: for
\* every response (valid JSON, truncated JSON, text without JSON, JSON of
\* the wrong shape, unexpected envelope) each parser returns a list of
\* items, possibly recovered or empty, or a record, possibly the fallback.
C13_ParsersNeverRaise ==
    ( /\ fn \in {"adv_parse_nova_response", "cxo_parse_nova_response",
                 "sanc_parse_nova_sanctions_response", "sec_parse_nova_response",
                 "priv_parse_nova_response"}
      /\ pc = "returned" )
    => /\ ret.exc = "none"
       /\ ret.val.kind \in {"list", "CompanyInfo"}

\* the adverse-media parser recovered the complete items of an answer that
\* was cut inside a later object
C13_Witness ==
    /\ fn = "adv_parse_nova_response"
    /\ pc = "returned"
    /\ arg.env = "output_message"
    /\ arg.text.body = "array_truncated"
    /\ ret.exc = "none"
    /\ ret.val.via = "recovered"
    /\ ret.val.items = arg.text.n
    /\ ret.val.items >= 1

\* C14: whenever the LLM path of NovaProExtractor.extract_company_data
\* fails (no client, the call raises, the response cannot be parsed), the
\* record returned is the deterministic fallback applied to the evidence
\* string the extraction was given.
C14_FallbackOnSameEvidence ==
    ( /\ fn = "sec_extract_company_data"
      /\ pc = "returned"
      /\ ret.val.via = "fallback" )
    => ret.val.snippets = arg.snippets

\* C15: every record the structured extractors return has every schema
\* field populated: each scalar holds a value or the sentinel and each of
\* CIK, DUNS, LEI, CUSIP is a key of company_identifiers.
C15_EveryFieldPopulated ==
    ( /\ fn \in {"sec_parse_nova_response", "priv_parse_nova_response"}
      /\ pc = "returned" )
    => /\ ret.val.scalars \in {"sentinel", "value"}
       /\ ret.val.ids.keys = IdKeys

\* every scored field of the argument holds the sentinel (or the executive
\* list is empty) / holds a concrete value
AllSentinel ==
    IF fn = "sec_calculate_completeness"
    THEN arg.plain = 0 /\ arg.desc = "sentinel" /\ arg.ids = 0
    ELSE arg.filled = 0

AllConcrete ==
    IF fn = "sec_calculate_completeness"
    THEN arg.plain = SecPlainFields /\ arg.desc \in {"short", "long"}
         /\ arg.ids = Cardinality(IdKeys)
    ELSE arg.count > 0 /\ arg.filled = arg.total

\* C16: NovaSECExtractor._calculate_completeness and
\* SerperCxOSearcher._calculate_completeness score a record whose fields
\* all hold the sentinel (or an empty executive list) exactly 0 and a
\* record whose fields all hold concrete values exactly 100.
C16_CompletenessBounds ==
    ( /\ fn \in {"sec_calculate_completeness", "cxo_calculate_completeness"}
      /\ pc = "returned" )
    => /\ AllSentinel => ret.val = 0
       /\ AllConcrete => ret.val = 10000

\* C17: NovaProPrivateExtractor._calculate_completeness scores against the
\* schema: total is the same for any two records, whether or not a record
\* has a key for each leaf, and percent = 100 * filled / total.
C17_PrivTotalIsSchema ==
    ( /\ fn = "priv_calculate_completeness"
      /\ pc = "returned" )
    => /\ \A other \in PrivInfos : PrivTotalFields(other) = ret.val.total
       /\ ret.val.percent = (ret.val.filled * 10000) \div ret.val.total

\* C18: after deduplication the output holds, for every URL of the input
\* taken after normalization (protocol, leading www. and trailing slash
\* stripped), exactly one hit, and it is the first one seen in the input.
C18_DedupByNormalizedUrl ==
    ( /\ fn \in {"adv_deduplicate_articles", "cxo_combine_search_results"}
      /\ pc = "returned" )
    => \A i \in 1..Len(arg) :
         LET same  == { j \in 1..Len(arg) :
                          Normalized(arg[j].link) = Normalized(arg[i].link) }
             first == CHOOSE j \in same : \A k \in same : j <= k
             kept  == { k \in 1..Len(ret.val) :
                          Normalized(ret.val[k].link) = Normalized(arg[i].link) }
         IN  /\ Cardinality(kept) = 1
             /\ \A k \in kept : ret.val[k] = arg[first]

\* the signals of the priority score
SignalNames ==
    {"sec_domain", "filing_keyword", "target_year", "target_company",
     "current_year_in_url", "previous_year_in_url", "10k_in_title",
     "10q_in_title", "8k_in_title", "earnings", "financial_indicator",
     "name_in_url", "name_in_title", "symbol_in_url"}

Signal(sig, h, y) ==
    CASE sig = "sec_domain"           -> h["url_sec"]
      [] sig = "filing_keyword"       -> IsSecFiling(h)
      [] sig = "target_year"          -> IsTargetYear(h, y)
      [] sig = "target_company"       -> IsTargetCompany(h)
      [] sig = "current_year_in_url"  -> h["url_cur"]
      [] sig = "previous_year_in_url" -> h["url_prev"]
      [] sig = "10k_in_title"         -> h["title_10k"]
      [] sig = "10q_in_title"         -> h["title_10q"]
      [] sig = "8k_in_title"          -> h["title_8k"]
      [] sig = "earnings"             -> h["title_earnings"] \/ h["snip_earnings"]
      [] sig = "financial_indicator"  -> h["snip_earnings"] \/ h["snip_financial"]
      [] sig = "name_in_url"          -> h["url_name"]
      [] sig = "name_in_title"        -> h["title_name"]
      [] sig = "symbol_in_url"        -> h["url_symbol"]

\* C19: the priority score is strictly monotonic in its signals: for any
\* result and any one signal that is false, a result that differs in having
\* that signal true, all other signals being the same, scores strictly
\* higher.
C19_ScoreStrictlyMonotonic ==
    ( /\ fn = "sec_priority_score"
      /\ pc = "returned" )
    => \A a \in Atoms, sig \in SignalNames :
         LET more == [arg.hit EXCEPT ![a] = TRUE]
         IN  ( /\ ~Signal(sig, arg.hit, arg.year)
               /\ Signal(sig, more, arg.year)
               /\ \A other \in SignalNames \ {sig} :
                    Signal(other, more, arg.year) = Signal(other, arg.hit, arg.year) )
             => PriorityScore(more, arg.year) > ret.val

\* C20: the lists returned by _prioritize_sec_documents hold exactly the
\* input results whose priority score is >= 15: none below 15 is returned
\* and none scoring >= 15 is left out.
C20_ThresholdFilter ==
    ( /\ fn = "sec_prioritize_sec_documents"
      /\ pc = "returned" )
    => LET out == ret.val.sec_results
       IN  /\ \A k \in 1..Len(out) :
                /\ out[k].priority_score >= 15
                /\ out[k].priority_score = PriorityScore(out[k].feat, arg.year)
                /\ ret.val.document_urls[k] = out[k].url
           /\ Len(ret.val.document_urls) = Len(out)
           /\ \A i \in 1..Len(arg.hits) :
                Cardinality({ k \in 1..Len(out) : out[k].url = arg.hits[i].link })
                  = IF PriorityScore(arg.hits[i].feat, arg.year) >= 15 THEN 1 ELSE 0

\* a result scoring exactly 15 was returned and one scoring 10 was dropped
C20_Witness ==
    /\ fn = "sec_prioritize_sec_documents"
    /\ pc = "returned"
    /\ \E i, j \in 1..Len(arg.hits) :
         /\ PriorityScore(arg.hits[i].feat, arg.year) = 15
         /\ PriorityScore(arg.hits[j].feat, arg.year) = 10
         /\ \E k \in 1..Len(ret.val.sec_results) :
              ret.val.sec_results[k].url = arg.hits[i].link
         /\ \A k \in 1..Len(ret.val.sec_results) :
              ret.val.sec_results[k].url # arg.hits[j].link

(* ============== properties of persistence and of the prompts =========== *)
\* C23: a failed final persistence write surfaces to the caller: a run of
\* search_and_extract whose put_item call failed does not return normally
\* with a record, it raises or returns an error result.
C23_FailedWriteSurfaces ==
    ( /\ fn = "sec"
      /\ pc = "returned"
      /\ \E i \in DOMAIN saved : ~saved[i].written )
    => ret.kind = "error"

\* C24: in search_and_extract the only record handed to the table is the
\* record the run returns, it is handed over at most once, and a run that
\* returns a record (no 'error' key) has handed it over before returning.
C24_WrittenIsReturned ==
    /\ Len(saved) <= 1
    /\ ( fn = "sec" /\ pc = "returned" )
         => /\ \A i \in DOMAIN saved : saved[i].record = ret
            /\ ret.kind = "record" => Len(saved) = 1

\* C25: every attempt of the three retry loops executes the search again:
\* no extraction is made without a search batch of its own, so the number
\* of search batches is never below the number of extractions.
C25_SearchPerAttempt ==
    fn \in {"sec", "cxo", "priv"} => extractions <= searches

\* C26: in the three retry loops the extraction of the first attempt sends
\* the base prompt and the extraction of every later attempt sends a
\* strengthened prompt.
C26_RetryPromptStrengthened ==
    [][ ( fn \in {"sec", "cxo", "priv"} /\ extractions' = extractions + 1 )
        => ( prompt' = IF attempt = (IF fn = "priv" THEN 1 ELSE 0)
                       THEN "base" ELSE "enhanced" ) ]_vars

\* what _calculate_completeness gives for a record extract_private_company_data
\* returns; it counts the record of _fallback_extraction so:
\* registered_legal_name holds the company name, the other eleven plain
\* fields a sentinel, company_identifiers is {} and leadership_team a string
PrivCompletenessOfReturned(r) ==
    IF r = FallbackRecord
    THEN PrivCompletenessScore([scalars |-> 1, ids |-> Identifiers({}, FALSE),
                                leaves |-> -1, filled |-> 0]).percent
    ELSE PrivCalculateCompleteness(r)

\* C27: the score extract_private_company_data returns next to a record is
\* the value _calculate_completeness gives for exactly that record, on every
\* return path, the fallback paths included.
C27_ScoreOfReturnedRecord ==
    ( fn = "priv" /\ pc = "returned" )
    => ret_completeness = PrivCompletenessOfReturned(ret)

\* C29: once an attempt of search_and_extract has produced and evaluated a
\* record, the run does not end with an error result.
C29_EvaluatedNeverError ==
    ( fn = "sec" /\ pc = "returned" /\ nEvaluated > 0 )
    => ret.kind = "record"

(* ================== properties of the pure functions, II =============== *)
\* C28: when the text of the adverse-media response is a JSON array cut off
\* inside item k + 1, after k >= 1 complete item objects, the recovery pass
\* of _parse_nova_response returns exactly those k items, in their order.
C28_RecoversCompleteItems ==
    ( /\ fn = "adv_parse_nova_response"
      /\ pc = "returned"
      /\ arg.env \in {"output_message", "content_text"}
      /\ arg.text.body \in {"array_truncated", "array_truncated_brace"}
      /\ arg.text.n >= 1 )
    => ret = ItemList(arg.text.n, "recovered")

\* C30: an article passes _quick_adverse_filter exactly when its title +
\* snippet holds the company name, holds no exclusion keyword, and either
\* holds at least two different adverse keywords or has an adverse keyword
\* in its title; an article whose only adverse keyword occurs in the snippet
\* is not passed.
C30_QuickFilterRule ==
    ( fn = "adv_quick_adverse_filter" /\ pc = "returned" )
    => \A i \in DOMAIN arg :
         LET a == arg[i]
         IN  ( \E k \in DOMAIN ret.val : ret.val[k] = a )
             <=> ( /\ a.name
                   /\ ~a.exclusion
                   /\ \/ Cardinality(a.title \cup a.snippet) >= 2
                      \/ a.title # {} )

(* ======================== properties of the stores ===================== *)
\* C21: persisting a result never overwrites or alters a version persisted
\* before: every put_item call uses a primary key no earlier call used, so
\* every item ever written is still in its table as it was written.
C21_NeverOverwrites ==
    \A i \in DOMAIN puts :
        /\ puts[i].key \in DOMAIN table
        /\ table[puts[i].key] = i

\* C22: after any interleaving of merge runs, overlapping runs for one key
\* and runs whose second upload fails included, the *_latest object holds
\* the content of the timestamped object written last (no run being
\* between its steps).
C22_LatestIsMostRecent ==
    ( \A r \in DOMAIN merge : merge[r].pc \in {"idle", "done", "failed"} )
    => \A k \in DOMAIN last_written :
         /\ k \in DOMAIN bucket
         /\ bucket[k] = last_written[k]

====
